---- MODULE Spec2Model ----
(***************************************************************************)
(* PowerPointMakerDDB: PDFService (text chunking, ingestion, the vector    *)
(* store file, similarity search) and WorkflowService (load, discover,     *)
(* search, summarize, generate).                                           *)
(*                                                                         *)
(* A text is a sequence of one-character strings.  Three machines share    *)
(* the module: SpecChunk runs one call of PDFService.chunk_text, one loop  *)
(* iteration per step; Spec runs PDFService.process_pdfs and load_vectors  *)
(* against the store file, with the PDF folder changing between runs;      *)
(* SpecWorkflow runs one call of WorkflowService, or of search_vectors,    *)
(* over a store file that process_pdfs left behind.                        *)
(***************************************************************************)
EXTENDS Integers, Sequences, FiniteSets, TLC

VARIABLES
    text,        \* chunk_text: the text argument
    chunk_size,  \* chunk_text: the chunk_size argument
    overlap,     \* chunk_text: the overlap argument
    start,       \* chunk_text: the cursor
    chunks,      \* chunk_text: the list of emitted chunks
    windows,     \* chunk_text: history of the [start, end) taken per iteration
    cpc,         \* chunk_text: "call", "loop", "done", "raised", "hang"
    pdf_folder,      \* the PDFs in self.pdf_folder, in glob order
    vector_file,     \* self.vector_file on disk: [exists, bytes]
    ppc,             \* process_pdfs: "idle", "loop", "dump"
    pdf_files,       \* process_pdfs: pdf_files
    idx,             \* process_pdfs: position of the for loop in pdf_files
    all_chunks,      \* process_pdfs: all_chunks
    all_embeddings,  \* process_pdfs: all_embeddings
    all_metadata,    \* process_pdfs: all_metadata
    embeddings,      \* process_pdfs: embeddings, what create_embeddings returned last
    failed,          \* a collaborator or the write failed in the last run
    result,          \* how the last process_pdfs run ended
    loaded,          \* what the last load_vectors call gave its caller
    completed,       \* what the last completed process_pdfs run produced
    wpc,               \* WorkflowService: "idle", "loaded", "search", "summarize", "done"
    called,            \* the method of WorkflowService / PDFService that was called
    vector_data,       \* run_workflow / search_topics: vector_data
    topics,            \* run_workflow / search_topics: topics
    top_k,             \* run_workflow / search_topics: top_k
    pos,               \* position of the running "for topic in topics" loop
    topic_results,     \* the dict topic_results, as its items in insertion order
    topic_summaries,   \* the dict topic_summaries, as its items in insertion order
    outcome,           \* what the call gave its caller: a value or an exception
    output_folder,     \* the files in self.output_folder
    completion_calls,  \* the requests made to chat.completions.create
    embedding_calls,   \* the query embeddings requested by search_vectors
    generated,         \* how many times the call rendered a document
    args,              \* the arguments of a call that is one step
    mpc                \* main: "none" (not running), "start", "ingest", "workflow",
                       \* or how it ended

cvars == <<text, chunk_size, overlap, start, chunks, windows, cpc>>

pvars == <<pdf_folder, vector_file, ppc, pdf_files, idx, all_chunks,
           all_embeddings, all_metadata, embeddings, failed, result, loaded,
           completed>>

wvars == <<wpc, called, vector_data, topics, top_k, pos, topic_results,
           topic_summaries, outcome, output_folder, completion_calls,
           embedding_calls, generated, args>>
vars == <<cvars, pvars, wvars, mpc>>

----------------------------------------------------------------------------
(* Bounds of the model *)

MaxLen == 11         \* longest text of letters and periods
MaxPeriods == 2      \* most periods in such a text
MaxShortLen == 3     \* longest text over the full Alphabet
MaxSize == 10        \* largest chunk_size / overlap argument
MinParam == 1        \* the arguments go down to -MinParam
MaxExtraIter == 2    \* a run is followed for Len(text) + MaxExtraIter iterations
MaxDocs == 2         \* most PDFs in the folder
MaxTopics == 2       \* longest list of topics given to a call
MaxTopK == 2         \* largest top_k below the default
MaxChunks == 10      \* most chunks of a store that is sampled
MaxSample == 5       \* largest sample_size below the default

----------------------------------------------------------------------------
(* Characters *)

Letter == "a"
Period == "."
Newline == "\n"
Space == " "

Alphabet == {Letter, Period, Newline, Space}
Whitespace == {Newline, Space}

SeqsUpTo(S, n) == UNION {[1..k -> S] : k \in 0..n}

\* The texts of n letters with periods at the positions P
Sentences(n) ==
    {[i \in 1..n |-> IF i \in P THEN Period ELSE Letter] :
        P \in {Q \in SUBSET (1..n) : Cardinality(Q) <= MaxPeriods}}

Texts == SeqsUpTo(Alphabet, MaxShortLen) \cup UNION {Sentences(n) : n \in 0..MaxLen}
Params == (0 - MinParam)..MaxSize

Max2(a, b) == IF a >= b THEN a ELSE b
Min2(a, b) == IF a <= b THEN a ELSE b

----------------------------------------------------------------------------
(* Python string operations *)

\* A slice bound i normalised against length n (negative bounds count from
\* the end, everything is clamped to 0..n).
PyIndex(i, n) == IF i < 0 THEN Max2(i + n, 0) ELSE Min2(i, n)

\* s[a:b]
Slice(s, a, b) ==
    LET lo == PyIndex(a, Len(s))
        hi == PyIndex(b, Len(s))
    IN  IF lo >= hi THEN <<>> ELSE SubSeq(s, lo + 1, hi)

\* s.rfind(c): 0-based index of the last c in s, -1 when there is none
RFind(s, c) ==
    IF \A i \in 1..Len(s) : s[i] # c THEN 0 - 1
    ELSE (CHOOSE i \in 1..Len(s) :
            s[i] = c /\ \A j \in (i + 1)..Len(s) : s[j] # c) - 1

\* s.strip()
Strip(s) ==
    IF \A i \in 1..Len(s) : s[i] \in Whitespace THEN <<>>
    ELSE SubSeq(s,
            CHOOSE i \in 1..Len(s) :
                s[i] \notin Whitespace /\ \A j \in 1..(i - 1) : s[j] \in Whitespace,
            CHOOSE i \in 1..Len(s) :
                s[i] \notin Whitespace /\ \A j \in (i + 1)..Len(s) : s[j] \in Whitespace)

----------------------------------------------------------------------------
(* PDFService.chunk_text *)

\* break_point > chunk_size * 0.7, in integers (0.7 = ThresholdNum/ThresholdDen)
ThresholdNum == 7
ThresholdDen == 10

PastThreshold(break_point, size) ==
    ThresholdDen * break_point > ThresholdNum * size

\* max(last_period, last_newline)
BreakPoint(chunk) == Max2(RFind(chunk, Period), RFind(chunk, Newline))

\* Does the iteration at cursor st cut its window at a sentence boundary?
Truncates(t, st, size) ==
    LET chunk == Slice(t, st, st + size)
    IN  /\ st + size < Len(t)
        /\ PastThreshold(BreakPoint(chunk), size)

\* The end of the iteration at cursor st, after the boundary adjustment
WindowEnd(t, st, size) ==
    IF Truncates(t, st, size)
    THEN st + BreakPoint(Slice(t, st, st + size)) + 1
    ELSE st + size

\* Mutant of RawChunk: the window is taken as text[start:], its end forgotten
RawChunkToEnd(t, st, size) == Slice(t, st, Len(t))

\* The chunk of the iteration at cursor st, before strip()
RawChunk(t, st, size) ==
    LET chunk == Slice(t, st, st + size)
    IN  IF Truncates(t, st, size)
        THEN Slice(chunk, 0, BreakPoint(chunk) + 1)
        ELSE chunk

\* start = end - overlap
NextStart(t, st, size, ov) == WindowEnd(t, st, size) - ov

\* Mutant of Entry: a parameter check placed before the empty-text return
EntryValidatesFirst(t, size, ov) ==
    IF size <= 0 \/ ov >= size \/ ov < 0 THEN "raised"
    ELSE IF t = <<>> THEN "done" ELSE "loop"

\* Where a call goes on entry: `if not text: return []`, else into the loop.
\* chunk_text has no parameter check, so no call raises.
Entry(t, size, ov) == IF t = <<>> THEN "done" ELSE "loop"

\* The cursors the loop has already been at
SeenStarts == {windows[i][1] : i \in 1..Len(windows)}

ChunkCall ==
    /\ cpc = "call"
    /\ cpc' = Entry(text, chunk_size, overlap)
    /\ UNCHANGED <<text, chunk_size, overlap, start, chunks, windows, pvars, wvars, mpc>>

\* One iteration of `while start < len(text)`.  Each iteration is a function
\* of the cursor alone, so an iteration that leads back to a cursor the loop
\* has been at repeats forever: the call hangs.
ChunkIterate ==
    /\ cpc = "loop"
    /\ start < Len(text)
    /\ Len(chunks) < Len(text) + MaxExtraIter
    /\ chunks' = Append(chunks, Strip(RawChunk(text, start, chunk_size)))
    /\ windows' = Append(windows, <<start, WindowEnd(text, start, chunk_size)>>)
    /\ start' = NextStart(text, start, chunk_size, overlap)
    /\ cpc' = IF start' \in SeenStarts \cup {start} THEN "hang" ELSE "loop"
    /\ UNCHANGED <<text, chunk_size, overlap, pvars, wvars, mpc>>

\* The loop condition fails: return chunks
ChunkReturn ==
    /\ cpc = "loop"
    /\ start >= Len(text)
    /\ cpc' = "done"
    /\ UNCHANGED <<text, chunk_size, overlap, start, chunks, windows, pvars, wvars, mpc>>

----------------------------------------------------------------------------
(* chunk_text as a function: the list a call returns *)

RECURSIVE ChunkFrom(_, _, _, _, _)
ChunkFrom(t, st, size, ov, acc) ==
    IF st >= Len(t) THEN acc
    ELSE ChunkFrom(t, NextStart(t, st, size, ov), size, ov,
                   Append(acc, Strip(RawChunk(t, st, size))))

ChunkText(t, size, ov) ==
    IF Entry(t, size, ov) = "done" THEN <<>> ELSE ChunkFrom(t, 0, size, ov, <<>>)

\* chunk_text(text): the default arguments
DefaultChunkSize == 1000
DefaultOverlap == 200

----------------------------------------------------------------------------
(* The PDF folder *)

\* A text longer than one default chunk, with one sentence end late in the
\* first window
LongText ==
    [i \in 1..(DefaultChunkSize + 1) |->
        IF i = DefaultChunkSize - DefaultOverlap THEN Period ELSE Letter]

\* The PDFs there are, by file name.  extract_text_from_pdf raises on an
\* unreadable one, and gives TextOf(name) for the others.
Library == {"empty.pdf", "short.pdf", "long.pdf", "broken.pdf"}

Readable(name) == name # "broken.pdf"

TextOf(name) ==
    CASE name = "short.pdf" -> <<Letter, Period, Newline>>
      [] name = "long.pdf" -> LongText
      [] OTHER -> <<>>

\* The state holds a chunk by reference, as the k-th string chunk_text
\* returns for its document; ChunkString is the string itself.
ChunksByDocument ==
    [name \in Library |-> ChunkText(TextOf(name), DefaultChunkSize, DefaultOverlap)]

DocChunks(name) == ChunksByDocument[name]

ChunkRefs(name) ==
    [k \in 1..Len(DocChunks(name)) |-> [source |-> name, k |-> k]]

ChunkString(ref) == DocChunks(ref.source)[ref.k]

Folders ==
    {f \in SeqsUpTo(Library, MaxDocs) :
        \A i, j \in 1..Len(f) : i # j => f[i] # f[j]}

\* The embedding vectors the embedder may return
Vectors == {<<0, 1>>, <<1, 0>>}

\* create_embeddings(chunks) when the API call succeeds: [] without a call
\* when there are no chunks, else the items of response.data, one per chunk
\* from an embedder that keeps its contract, one fewer or one more from one
\* that does not
Embeddings(chs) ==
    IF chs = <<>> THEN {<<>>}
    ELSE UNION {[1..n -> Vectors] : n \in (Len(chs) - 1)..(Len(chs) + 1)}

----------------------------------------------------------------------------
(* The store and its file *)

\* np.array(rows): the shape and the values in row-major order
RECURSIVE Flatten(_)
Flatten(rows) ==
    IF rows = <<>> THEN <<>> ELSE rows[1] \o Flatten(Tail(rows))

\* Mutant of NpArray: the two axes are swapped
NpArrayTransposed(rows) ==
    IF rows = <<>> THEN [shape |-> <<0>>, data |-> <<>>]
    ELSE [shape |-> <<Len(rows[1]), Len(rows)>>, data |-> Flatten(rows)]

NpArray(rows) ==
    IF rows = <<>> THEN [shape |-> <<0>>, data |-> <<>>]
    ELSE [shape |-> <<Len(rows), Len(rows[1])>>, data |-> Flatten(rows)]

\* len(array) and array[i] (i from 1)
ArrayLen(arr) == arr.shape[1]
ArrayRow(arr, i) ==
    LET d == arr.shape[2] IN SubSeq(arr.data, (i - 1) * d + 1, i * d)

\* vector_data of process_pdfs
VectorData(chs, embs, meta) ==
    [chunks |-> chs, embeddings |-> NpArray(embs), metadata |-> meta]

EmptyStore == [chunks |-> <<>>, embeddings |-> NpArray(<<>>), metadata |-> <<>>]

\* pickle.dump(vector_data, f): the stream written, item by item; a load
\* needs the whole stream, up to its STOP
Token(op, arg) == [op |-> op, arg |-> arg]

Pickle(data) ==
    << Token("PROTO", <<>>),
       Token("chunks", data.chunks),
       Token("embeddings", data.embeddings),
       Token("metadata", data.metadata),
       Token("STOP", <<>>) >>

Complete(bytes) == Len(bytes) > 0 /\ bytes[Len(bytes)].op = "STOP"

ItemOf(bytes, op) == bytes[CHOOSE i \in 1..Len(bytes) : bytes[i].op = op].arg

\* pickle.load(f) of a complete stream
Unpickle(bytes) ==
    [chunks |-> ItemOf(bytes, "chunks"),
     embeddings |-> ItemOf(bytes, "embeddings"),
     metadata |-> ItemOf(bytes, "metadata")]

NotLoaded == [status |-> "none", data |-> EmptyStore]
Raised == [status |-> "raised", data |-> EmptyStore]
Returned(data) == [status |-> "returned", data |-> data]

\* Mutant of LoadResult: the file is opened without the exists() test
LoadResultNoExistsTest(file) ==
    IF file.exists /\ Complete(file.bytes)
    THEN Returned(Unpickle(file.bytes))
    ELSE Raised

\* load_vectors: the empty store when the file does not exist, else what
\* pickle.load gives, which raises on a stream that is cut short
LoadResult(file) ==
    IF ~file.exists THEN Returned(EmptyStore)
    ELSE IF Complete(file.bytes) THEN Returned(Unpickle(file.bytes))
    ELSE Raised

NoFile == [exists |-> FALSE, bytes |-> <<>>]

----------------------------------------------------------------------------
(* PDFService.process_pdfs *)

NoRun == [valid |-> FALSE, chunks |-> <<>>, embeddings |-> <<>>, metadata |-> <<>>]

\* Mutant of Metadata: chunk_index counts from one
MetadataOneBased(name, chs) ==
    [i \in 1..Len(chs) |->
        [source_file |-> name, chunk_index |-> i, total_chunks |-> Len(chs)]]

\* The metadata of the chunks of one document
Metadata(name, chs) ==
    [i \in 1..Len(chs) |->
        [source_file |-> name, chunk_index |-> i - 1, total_chunks |-> Len(chs)]]

\* Mutant of ProcessStart: the store file is opened for writing before the
\* documents are read
ProcessStartOpensFile ==
    /\ ppc = "idle"
    /\ pdf_files' = pdf_folder
    /\ loaded' = NotLoaded
    /\ vector_file' = [exists |-> TRUE, bytes |-> <<>>]
    /\ IF pdf_folder = <<>>
       THEN /\ result' = "no_files"
            /\ UNCHANGED <<ppc, idx, all_chunks, all_embeddings, all_metadata,
                           embeddings>>
       ELSE /\ result' = "running"
            /\ ppc' = "loop"
            /\ idx' = 1
            /\ all_chunks' = <<>>
            /\ all_embeddings' = <<>>
            /\ all_metadata' = <<>>
            /\ embeddings' = <<>>
    /\ failed' = FALSE
    /\ UNCHANGED <<pdf_folder, completed, cvars, wvars, mpc>>

\* pdf_files = glob("*.pdf"); return "no_files" when there are none
ProcessStart ==
    /\ ppc = "idle"
    /\ pdf_files' = pdf_folder
    /\ loaded' = NotLoaded
    /\ IF pdf_folder = <<>>
       THEN /\ result' = "no_files"
            /\ UNCHANGED <<ppc, idx, all_chunks, all_embeddings, all_metadata,
                           embeddings>>
       ELSE /\ result' = "running"
            /\ ppc' = "loop"
            /\ idx' = 1
            /\ all_chunks' = <<>>
            /\ all_embeddings' = <<>>
            /\ all_metadata' = <<>>
            /\ embeddings' = <<>>
    /\ failed' = FALSE
    /\ UNCHANGED <<pdf_folder, vector_file, completed, cvars, wvars, mpc>>

\* process_pdfs is left: its locals are gone
Leave ==
    /\ ppc' = "idle"
    /\ pdf_files' = <<>>
    /\ idx' = 1
    /\ all_chunks' = <<>>
    /\ all_embeddings' = <<>>
    /\ all_metadata' = <<>>
    /\ embeddings' = <<>>

\* Mutant of Abort: the failing document is skipped and the run goes on
AbortSkipsDocument ==
    /\ idx' = idx + 1
    /\ failed' = TRUE
    /\ UNCHANGED <<ppc, pdf_files, all_chunks, all_embeddings, all_metadata,
                   embeddings, result>>

\* An exception leaves process_pdfs
Abort ==
    /\ Leave
    /\ failed' = TRUE
    /\ result' = "raised"

\* extract_text_from_pdf raises
ExtractFails ==
    /\ ppc = "loop"
    /\ idx <= Len(pdf_files)
    /\ ~Readable(pdf_files[idx])
    /\ Abort
    /\ UNCHANGED <<pdf_folder, vector_file, loaded, completed, cvars, wvars, mpc>>

\* create_embeddings raises: the API call failed
EmbedFails ==
    /\ ppc = "loop"
    /\ idx <= Len(pdf_files)
    /\ Readable(pdf_files[idx])
    /\ ChunkRefs(pdf_files[idx]) # <<>>
    /\ Abort
    /\ UNCHANGED <<pdf_folder, vector_file, loaded, completed, cvars, wvars, mpc>>

\* Mutant of UsedEmbeddings: the whole response is appended
UsedEmbeddingsAll(embs, n) == embs

\* The embeddings the for loop appends: embeddings[i] for the i-th chunk
UsedEmbeddings(embs, n) == SubSeq(embs, 1, n)

\* embeddings[i] raises IndexError: the embedder returned too few items
EmbedTooFew ==
    /\ ppc = "loop"
    /\ idx <= Len(pdf_files)
    /\ Readable(pdf_files[idx])
    /\ \E embs \in Embeddings(ChunkRefs(pdf_files[idx])) :
        Len(embs) < Len(ChunkRefs(pdf_files[idx]))
    /\ Abort
    /\ UNCHANGED <<pdf_folder, vector_file, loaded, completed, cvars, wvars, mpc>>

\* One document: extract, chunk, embed, append chunk by chunk
ProcessDocument ==
    /\ ppc = "loop"
    /\ idx <= Len(pdf_files)
    /\ Readable(pdf_files[idx])
    /\ LET doc == pdf_files[idx]
           chs == ChunkRefs(doc)
       IN  \E embs \in Embeddings(chs) :
            /\ Len(embs) >= Len(chs)
            /\ embeddings' = embs
            /\ all_chunks' = all_chunks \o chs
            /\ all_embeddings' = all_embeddings \o UsedEmbeddings(embs, Len(chs))
            /\ all_metadata' = all_metadata \o Metadata(doc, chs)
    /\ idx' = idx + 1
    /\ UNCHANGED <<pdf_folder, vector_file, ppc, pdf_files, failed, result,
                   loaded, completed, cvars, wvars, mpc>>

\* open(self.vector_file, 'wb'): the file is created or cut to length 0
ProcessOpen ==
    /\ ppc = "loop"
    /\ idx > Len(pdf_files)
    /\ vector_file' = [exists |-> TRUE, bytes |-> <<>>]
    /\ ppc' = "dump"
    /\ UNCHANGED <<pdf_folder, pdf_files, idx, all_chunks, all_embeddings,
                   all_metadata, embeddings, failed, result, loaded, completed,
                   cvars, wvars, mpc>>

\* pickle.dump writes the whole stream; process_pdfs returns "success"
ProcessDump ==
    /\ ppc = "dump"
    /\ vector_file' =
        [exists |-> TRUE,
         bytes |-> Pickle(VectorData(all_chunks, all_embeddings, all_metadata))]
    /\ Leave
    /\ failed' = FALSE
    /\ result' = "success"
    /\ completed' = [valid |-> TRUE, chunks |-> all_chunks,
                     embeddings |-> all_embeddings, metadata |-> all_metadata]
    /\ UNCHANGED <<pdf_folder, loaded, cvars, wvars, mpc>>

\* The write stops part way (disk full, the process is killed): the file
\* keeps what was written so far
ProcessDumpFails ==
    /\ ppc = "dump"
    /\ LET stream == Pickle(VectorData(all_chunks, all_embeddings, all_metadata))
       IN  \E k \in 0..(Len(stream) - 1) :
            vector_file' = [exists |-> TRUE, bytes |-> SubSeq(stream, 1, k)]
    /\ Abort
    /\ UNCHANGED <<pdf_folder, loaded, completed, cvars, wvars, mpc>>

\* PDFService.load_vectors
LoadVectors ==
    /\ ppc = "idle"
    /\ loaded' = LoadResult(vector_file)
    /\ UNCHANGED <<pdf_folder, vector_file, ppc, pdf_files, idx, all_chunks,
                   all_embeddings, all_metadata, embeddings, failed, result,
                   completed, cvars, wvars, mpc>>

\* Between runs the user adds or removes PDFs
ChangeFolder ==
    /\ ppc = "idle"
    /\ pdf_folder' \in Folders \ {pdf_folder}
    /\ loaded' = NotLoaded
    /\ UNCHANGED <<vector_file, ppc, pdf_files, idx, all_chunks,
                   all_embeddings, all_metadata, embeddings, failed, result,
                   completed, cvars, wvars, mpc>>

----------------------------------------------------------------------------
(* PDFService.search_vectors.  The method is called by WorkflowService and *)
(* by the tests; it is modelled after section 4.3 of the specification:    *)
(* search(query, topK, store) with the embedding of the query.             *)

\* What the embedder may return for a query, and its answer when it fails
QueryVectors == {<<0 - 1, 1>>, <<0, 0>>, <<1, 2>>}
NoVector == <<>>

RECURSIVE DotUpTo(_, _, _)
DotUpTo(a, b, n) ==
    IF n = 0 THEN 0 ELSE DotUpTo(a, b, n - 1) + a[n] * b[n]

Dot(a, b) == DotUpTo(a, b, Len(a))

\* sim(a, b) = dot(a, b) / (||a|| * ||b||), and 0 when a or b has zero
\* magnitude.  The value is kept exactly, as num / sqrt(den2).
Cosine(a, b) ==
    IF Dot(a, a) = 0 \/ Dot(b, b) = 0 THEN [num |-> 0, den2 |-> 1]
    ELSE [num |-> Dot(a, b), den2 |-> Dot(a, a) * Dot(b, b)]

\* t |-> sign(t) * t^2 is increasing, so it decides the order of x and y
SignedSquare(n) == IF n < 0 THEN 0 - n * n ELSE n * n

GreaterSimilarity(x, y) ==
    SignedSquare(x.num) * y.den2 > SignedSquare(y.num) * x.den2

SameSimilarity(x, y) ==
    SignedSquare(x.num) * y.den2 = SignedSquare(y.num) * x.den2

\* The similarity of the query to the embedding at position i of the store
SimilarityAt(vd, qe, i) == Cosine(qe, ArrayRow(vd.embeddings, i))

\* A result: the chunk, its score, its metadata
SearchResult(vd, qe, i) ==
    [chunk |-> vd.chunks[i],
     similarity |-> SimilarityAt(vd, qe, i),
     metadata |-> vd.metadata[i]]

\* The results for the first n positions of the store, in insertion order
RECURSIVE ResultsUpTo(_, _, _)
ResultsUpTo(vd, qe, n) ==
    IF n = 0 THEN <<>>
    ELSE Append(ResultsUpTo(vd, qe, n - 1), SearchResult(vd, qe, n))

\* Mutant of InsertionPoint: a result goes before the results it ties with
InsertionPointBeforeTies(ranked, r) ==
    Cardinality({i \in 1..Len(ranked) :
                    GreaterSimilarity(ranked[i].similarity, r.similarity)})

\* How many of the ranked results stay before r, a result of a later
\* position: those that are not less similar
InsertionPoint(ranked, r) ==
    Cardinality({i \in 1..Len(ranked) :
                    ~GreaterSimilarity(r.similarity, ranked[i].similarity)})

\* Rank by similarity descending, ties by insertion index ascending: the
\* stable sort of the first n results
RECURSIVE Ranked(_, _)
Ranked(results, n) ==
    IF n = 0 THEN <<>>
    ELSE SubSeq(Ranked(results, n - 1), 1,
                InsertionPoint(Ranked(results, n - 1), results[n]))
         \o <<results[n]>>
         \o SubSeq(Ranked(results, n - 1),
                   InsertionPoint(Ranked(results, n - 1), results[n]) + 1, n - 1)

\* Mutant of FirstResults: every result is returned
FirstResultsAll(results, k) == results

\* The first min(topK, store.size) results; none when topK <= 0
FirstResults(results, k) == SubSeq(results, 1, Min2(Max2(k, 0), Len(results)))

\* Mutant of SearchVectors: the query embedding is needed before the store
\* is looked at
SearchVectorsEmbedsFirst(qe, k, vd) ==
    IF qe = NoVector THEN Raised
    ELSE IF Len(vd.chunks) = 0 THEN Returned(<<>>)
    ELSE Returned(FirstResults(
            Ranked(ResultsUpTo(vd, qe, Len(vd.chunks)), Len(vd.chunks)), k))

\* search_vectors(query, top_k, vector_data), qe the embedding of the query
\* (NoVector when the embedder fails): the empty store answers at once
SearchVectors(qe, k, vd) ==
    IF Len(vd.chunks) = 0 THEN Returned(<<>>)
    ELSE IF qe = NoVector THEN Raised
    ELSE Returned(FirstResults(
            Ranked(ResultsUpTo(vd, qe, Len(vd.chunks)), Len(vd.chunks)), k))

\* search_vectors asks the embedder for the query only for a store with chunks
EmbedsQuery(vd) == Len(vd.chunks) > 0

----------------------------------------------------------------------------
(* WorkflowService: data *)

\* A dict, as the sequence of its items in insertion order
DictKeys(d) == {d[i].key : i \in 1..Len(d)}

DictGet(d, k) == d[CHOOSE i \in 1..Len(d) : d[i].key = k].value

\* d[k] = v: a new key goes last, an old key keeps its place
DictSet(d, k, v) ==
    IF k \in DictKeys(d)
    THEN [i \in 1..Len(d) |-> IF d[i].key = k THEN [key |-> k, value |-> v] ELSE d[i]]
    ELSE Append(d, [key |-> k, value |-> v])

\* What a call gives its caller
NoOutcome == [status |-> "none", error |-> "none", value |-> <<>>]
Gave(v) == [status |-> "returned", error |-> "none", value |-> v]
Threw(e) == [status |-> "raised", error |-> e, value |-> <<>>]

\* Topics are texts
Cats == <<"c", "a", "t", "s">>
Dogs == <<"d", "o", "g", "s">>
TopicNames == {Cats, Dogs}
TopicLists == SeqsUpTo(TopicNames, MaxTopics)

DefaultTopK == 5
TopKs == ((0 - 1)..MaxTopK) \cup {DefaultTopK}

\* The chunks, and the metadata, of the first n files, in order
RECURSIVE ChunksOfFiles(_, _)
ChunksOfFiles(files, n) ==
    IF n = 0 THEN <<>>
    ELSE ChunksOfFiles(files, n - 1) \o ChunkRefs(files[n])

RECURSIVE MetadataOfFiles(_, _)
MetadataOfFiles(files, n) ==
    IF n = 0 THEN <<>>
    ELSE MetadataOfFiles(files, n - 1)
            \o Metadata(files[n], ChunkRefs(files[n]))

\* The stores a completed run of process_pdfs writes for some folder
StoresOf(files) ==
    {VectorData(ChunksOfFiles(files, Len(files)), embs,
                MetadataOfFiles(files, Len(files))) :
        embs \in [1..Len(ChunksOfFiles(files, Len(files))) -> Vectors]}

Stores ==
    UNION {StoresOf(files) :
            files \in {f \in Folders : f # <<>> /\ \A i \in 1..Len(f) : Readable(f[i])}}

\* The states process_pdfs leaves the store file in: none, one it opened and
\* did not finish (load_vectors raises on each of these alike, the empty one
\* stands for them), one it finished
StoreFiles ==
    {NoFile, [exists |-> TRUE, bytes |-> <<>>]}
        \cup {[exists |-> TRUE, bytes |-> Pickle(s)] : s \in Stores}

\* The vector_data a caller can hand over: the empty store of the tests, or
\* what load_vectors gave it
Preloaded(file) ==
    {EmptyStore} \cup
        (IF LoadResult(file).status = "returned" THEN {LoadResult(file).data} ELSE {})

----------------------------------------------------------------------------
(* WorkflowService.load_embeddings, discover_topics, summarize_information, *)
(* generate_pdf                                                             *)

\* Mutant of LoadEmbeddings: a store without chunks is returned as it is
LoadEmbeddingsUnchecked(file) ==
    IF LoadResult(file).status = "raised" THEN Threw("load")
    ELSE Gave(LoadResult(file).data)

\* load_embeddings: ValueError when load_vectors gives no chunks
LoadEmbeddings(file) ==
    IF LoadResult(file).status = "raised" THEN Threw("load")
    ELSE IF Len(LoadResult(file).data.chunks) = 0 THEN Threw("no_data")
    ELSE Gave(LoadResult(file).data)

\* The answer of chat.completions.create
Completion(t) == [ok |-> TRUE, text |-> t]
CompletionError == [ok |-> FALSE, text |-> <<>>]
SummaryTexts == {<<"summary">>}

Digits == {"0", "1", "2", "3", "4", "5", "6", "7", "8", "9"}
LeadChars == Digits \cup {".", "-", ")", " "}

\* s.lstrip(C)
LStrip(s, C) ==
    IF \A i \in 1..Len(s) : s[i] \in C THEN <<>>
    ELSE SubSeq(s,
            CHOOSE i \in 1..Len(s) :
                s[i] \notin C /\ \A j \in 1..(i - 1) : s[j] \in C,
            Len(s))

\* The lines of a response that name a topic, cleaned
RECURSIVE ParseTopics(_)
ParseTopics(lines) ==
    IF lines = <<>> THEN <<>>
    ELSE LET line == Strip(lines[1])
             cleaned == Strip(LStrip(line, LeadChars))
         IN  (IF line # <<>> /\ cleaned # <<>> /\ Len(cleaned) > 2
              THEN <<cleaned>> ELSE <<>>) \o ParseTopics(Tail(lines))

\* The responses of the completion service to the discovery prompt, line by line
NumberedCats == <<"1", ".", " ">> \o Cats
DashedDogs == <<"-", " ">> \o Dogs \o <<" ">>
ShortLine == <<"2", ")", " ", "a", "b">>
DiscoverResponses ==
    {<<NumberedCats, DashedDogs>>, <<ShortLine>>, <<Dogs, <<>>, NumberedCats, Dogs>>}

\* discover_topics(vector_data, num_topics=5, sample_size=20)
DefaultSampleSize == 20

\* list(range(a, b, step)) for step > 0
RECURSIVE Range(_, _, _)
Range(a, b, step) ==
    IF a >= b THEN <<>> ELSE <<a>> \o Range(a + step, b, step)

\* discover_topics: the chunks it puts into the prompt.  All of them when
\* there are at most sample_size, else chunks[i] for i in
\* range(0, len(chunks), len(chunks) // sample_size), cut to sample_size
SampleChunks(chs, sample_size) ==
    IF Len(chs) <= sample_size THEN chs
    ELSE LET step == Len(chs) \div sample_size
             taken == Slice(Range(0, Len(chs), step), 0, sample_size)
         IN  [i \in 1..Len(taken) |-> chs[taken[i] + 1]]

DefaultNumTopics == 5
NumTopics == {0, 1, 2, DefaultNumTopics}

\* Mutant of DiscoverTopics: an empty list of topics is returned as it is
DiscoverTopicsReturnsEmpty(response, num_topics) ==
    IF ~response.ok THEN Threw("discover")
    ELSE Gave(Slice(ParseTopics(response.text), 0, num_topics))

\* discover_topics: topics[:num_topics] of the parsed lines, an error when
\* nothing is left or the completion call fails
DiscoverTopics(response, num_topics) ==
    IF ~response.ok THEN Threw("discover")
    ELSE IF Slice(ParseTopics(response.text), 0, num_topics) = <<>> THEN Threw("discover")
    ELSE Gave(Slice(ParseTopics(response.text), 0, num_topics))

\* f"No relevant information found for topic: {topic}"
NoInformation(topic) == <<"No relevant information found for topic: ">> \o topic

\* Mutant of CallsCompletion: the completion service is asked for every topic
CallsCompletionAlways(chs) == TRUE

\* summarize_information asks the completion service only about some chunks
CallsCompletion(chs) == chs # <<>>

\* summarize_information(topic, chunks), response the answer of the service
Summarize(topic, chs, response) ==
    IF ~CallsCompletion(chs) THEN Gave(NoInformation(topic))
    ELSE IF ~response.ok THEN Threw("summarize")
    ELSE Gave(response.text)

\* [result["chunk"] for result in topic_results[topic]]
ChunksOfResults(results) == [i \in 1..Len(results) |-> results[i].chunk]

\* A file name, as its stem followed by its extensions
NoFilename == [given |-> FALSE, name |-> <<>>]
Filename(n) == [given |-> TRUE, name |-> n]
Filenames ==
    {NoFilename, Filename(<<"test", ".pptx">>), Filename(<<"report", ".pdf">>),
     Filename(<<"report">>)}

\* datetime.now().strftime("%Y%m%d_%H%M%S")
Timestamp == "20250101_120000"

EndsWith(n, ext) == Len(n) > 0 /\ n[Len(n)] = ext

\* generate_pdf: the name of the file it writes
OutputName(fn) ==
    LET named == IF ~fn.given THEN <<"topic_summaries_", Timestamp, ".pdf">>
                 ELSE fn.name
    IN  IF EndsWith(named, ".pdf") THEN named ELSE Append(named, ".pdf")

\* self.output_folder / output_filename
OutputPath(fn) == [folder |-> "output_folder", name |-> OutputName(fn)]

\* The file doc.build writes: a title page and one section per topic
Document(path, summaries) == [path |-> path, size |-> 1 + Len(summaries)]

\* The dict run_workflow returns
WorkflowResult(ts, path, summaries) ==
    [status |-> "success", topics_processed |-> Len(ts), topics |-> ts,
     pdf_path |-> path, summaries |-> summaries]

----------------------------------------------------------------------------
(* WorkflowService: the calls.  One call is followed from its entry to its *)
(* return or its exception.                                                *)

NoArgs == [none |-> TRUE]

\* The call has returned or raised
Finish(o) ==
    /\ wpc' = "done"
    /\ outcome' = o

SummarizeRequest(topic) == [purpose |-> "summarize", topic |-> topic]
DiscoverRequest == [purpose |-> "discover", topic |-> <<>>]

\* load_embeddings()
CallLoadEmbeddings ==
    /\ wpc = "idle"
    /\ called' = "load_embeddings"
    /\ Finish(LoadEmbeddings(vector_file))
    /\ UNCHANGED <<vector_data, topics, top_k, pos, topic_results,
                   topic_summaries, output_folder, completion_calls,
                   embedding_calls, generated, args, cvars, pvars, mpc>>

\* search_vectors(query, top_k, vector_data)
CallSearchVectors ==
    /\ wpc = "idle"
    /\ called' = "search_vectors"
    /\ \E qe \in QueryVectors \cup {NoVector}, k \in TopKs, vd \in Preloaded(vector_file) :
        /\ args' = [query_embedding |-> qe, top_k |-> k, vector_data |-> vd]
        /\ embedding_calls' = IF EmbedsQuery(vd) THEN 1 ELSE 0
        /\ LET found == SearchVectors(qe, k, vd)
           IN  Finish(IF found.status = "raised" THEN Threw("search")
                      ELSE Gave(found.data))
    /\ UNCHANGED <<vector_data, topics, top_k, pos, topic_results,
                   topic_summaries, output_folder, completion_calls,
                   generated, cvars, pvars, mpc>>

\* summarize_information(topic, chunks)
CallSummarize ==
    /\ wpc = "idle"
    /\ called' = "summarize_information"
    /\ \E topic \in TopicNames,
          chs \in {<<>>, <<[source |-> "short.pdf", k |-> 1]>>},
          response \in {Completion(t) : t \in SummaryTexts} \cup {CompletionError} :
        /\ args' = [topic |-> topic, chunks |-> chs]
        /\ completion_calls' =
            IF CallsCompletion(chs) THEN {SummarizeRequest(topic)} ELSE {}
        /\ Finish(Summarize(topic, chs, response))
    /\ UNCHANGED <<vector_data, topics, top_k, pos, topic_results,
                   topic_summaries, output_folder, embedding_calls,
                   generated, cvars, pvars, mpc>>

\* discover_topics(vector_data=None, num_topics): load_embeddings, then the
\* completion call and the parsing of its answer
CallDiscoverTopics ==
    /\ wpc = "idle"
    /\ called' = "discover_topics"
    /\ \E response \in {Completion(l) : l \in DiscoverResponses} \cup {CompletionError},
          n \in NumTopics :
        /\ args' = [response |-> response, num_topics |-> n]
        /\ IF LoadEmbeddings(vector_file).status = "raised"
           THEN /\ Finish(LoadEmbeddings(vector_file))
                /\ UNCHANGED <<vector_data, completion_calls>>
           ELSE /\ vector_data' = LoadEmbeddings(vector_file).value
                /\ completion_calls' = {DiscoverRequest}
                /\ Finish(DiscoverTopics(response, n))
    /\ UNCHANGED <<topics, top_k, pos, topic_results, topic_summaries,
                   output_folder, embedding_calls, generated, cvars, pvars, mpc>>

\* generate_pdf(topic_summaries, output_filename)
CallGeneratePdf ==
    /\ wpc = "idle"
    /\ called' = "generate_pdf"
    /\ \E summaries \in {<<>>, <<[key |-> Cats, value |-> <<"summary">>]>>},
          fn \in Filenames :
        /\ args' = [topic_summaries |-> summaries, output_filename |-> fn]
        /\ output_folder' = output_folder \cup {Document(OutputPath(fn), summaries)}
        /\ generated' = generated + 1
        /\ Finish(Gave(OutputPath(fn)))
    /\ UNCHANGED <<vector_data, topics, top_k, pos, topic_results,
                   topic_summaries, completion_calls, embedding_calls,
                   cvars, pvars, mpc>>

\* generate_pdf raises: reportlab is missing, or doc.build fails
CallGeneratePdfFails ==
    /\ wpc = "idle"
    /\ called' = "generate_pdf"
    /\ \E summaries \in {<<>>, <<[key |-> Cats, value |-> <<"summary">>]>>},
          fn \in Filenames :
        args' = [topic_summaries |-> summaries, output_filename |-> fn]
    /\ Finish(Threw("generate"))
    /\ UNCHANGED <<vector_data, topics, top_k, pos, topic_results,
                   topic_summaries, output_folder, completion_calls,
                   embedding_calls, generated, cvars, pvars, mpc>>

\* run_workflow, step 1: vector_data = self.load_embeddings()
RunWorkflow ==
    /\ wpc = "idle"
    /\ called' = "run_workflow"
    /\ IF LoadEmbeddings(vector_file).status = "raised"
       THEN /\ Finish(LoadEmbeddings(vector_file))
            /\ UNCHANGED vector_data
       ELSE /\ wpc' = "loaded"
            /\ vector_data' = LoadEmbeddings(vector_file).value
            /\ UNCHANGED outcome
    /\ UNCHANGED <<topics, top_k, pos, topic_results, topic_summaries,
                   output_folder, completion_calls, embedding_calls,
                   generated, args, cvars, pvars, mpc>>

\* run_workflow, step 2 with topics given, up to the call of search_topics
UseTopics ==
    /\ wpc = "loaded"
    /\ topics' \in TopicLists
    /\ top_k' \in TopKs
    /\ wpc' = "search"
    /\ UNCHANGED <<called, vector_data, pos, topic_results, topic_summaries,
                   outcome, output_folder, completion_calls, embedding_calls,
                   generated, args, cvars, pvars, mpc>>

\* run_workflow, step 2 with topics None: discover_topics returns
Discover ==
    /\ wpc = "loaded"
    /\ \E lines \in DiscoverResponses, n \in NumTopics :
        /\ DiscoverTopics(Completion(lines), n).status = "returned"
        /\ topics' = DiscoverTopics(Completion(lines), n).value
    /\ top_k' \in TopKs
    /\ completion_calls' = completion_calls \cup {DiscoverRequest}
    /\ wpc' = "search"
    /\ UNCHANGED <<called, vector_data, pos, topic_results, topic_summaries,
                   outcome, output_folder, embedding_calls, generated, args,
                   cvars, pvars, mpc>>

\* discover_topics raises: the completion call failed, or no topic was found
DiscoverFails ==
    /\ wpc = "loaded"
    /\ \E response \in {Completion(l) : l \in DiscoverResponses} \cup {CompletionError},
          n \in NumTopics :
        /\ DiscoverTopics(response, n).status = "raised"
        /\ Finish(DiscoverTopics(response, n))
    /\ completion_calls' = completion_calls \cup {DiscoverRequest}
    /\ UNCHANGED <<called, vector_data, topics, top_k, pos, topic_results,
                   topic_summaries, output_folder, embedding_calls, generated,
                   args, cvars, pvars, mpc>>

\* search_topics(topics, top_k) without vector_data: load_embeddings first
CallSearchTopics ==
    /\ wpc = "idle"
    /\ called' = "search_topics"
    /\ topics' \in TopicLists
    /\ top_k' \in TopKs
    /\ IF LoadEmbeddings(vector_file).status = "raised"
       THEN /\ Finish(LoadEmbeddings(vector_file))
            /\ UNCHANGED vector_data
       ELSE /\ wpc' = "search"
            /\ vector_data' = LoadEmbeddings(vector_file).value
            /\ UNCHANGED outcome
    /\ UNCHANGED <<pos, topic_results, topic_summaries, output_folder,
                   completion_calls, embedding_calls, generated, args,
                   cvars, pvars, mpc>>

\* search_topics(topics, top_k, vector_data)
CallSearchTopicsPreloaded ==
    /\ wpc = "idle"
    /\ called' = "search_topics"
    /\ topics' \in TopicLists
    /\ top_k' \in TopKs
    /\ vector_data' \in Preloaded(vector_file)
    /\ args' = [preloaded |-> TRUE]
    /\ wpc' = "search"
    /\ UNCHANGED <<pos, topic_results, topic_summaries, outcome,
                   output_folder, completion_calls, embedding_calls,
                   generated, cvars, pvars, mpc>>

\* The vectors the embedder may answer the query with; nothing is asked of
\* it for an empty store
QueryAnswers(vd) ==
    IF EmbedsQuery(vd) THEN QueryVectors \cup {NoVector} ELSE {NoVector}

\* Mutant of SearchedStore: each search reads the store file again
SearchedStoreReloaded ==
    IF LoadResult(vector_file).status = "returned"
    THEN LoadResult(vector_file).data
    ELSE EmptyStore

\* The store search_topics hands to search_vectors: vector_data=vector_data
SearchedStore == vector_data

\* One topic of search_topics: topic_results[topic] = search_vectors(...)
SearchTopic ==
    /\ wpc = "search"
    /\ pos <= Len(topics)
    /\ \E qe \in QueryAnswers(vector_data) :
        LET found == SearchVectors(qe, top_k, SearchedStore)
        IN  /\ found.status = "returned"
            /\ topic_results' = DictSet(topic_results, topics[pos], found.data)
    /\ embedding_calls' = embedding_calls + (IF EmbedsQuery(vector_data) THEN 1 ELSE 0)
    /\ pos' = pos + 1
    /\ UNCHANGED <<wpc, called, vector_data, topics, top_k, topic_summaries,
                   outcome, output_folder, completion_calls, generated, args,
                   cvars, pvars, mpc>>

\* search_vectors raises: the query could not be embedded
SearchTopicFails ==
    /\ wpc = "search"
    /\ pos <= Len(topics)
    /\ \E qe \in QueryAnswers(vector_data) :
        SearchVectors(qe, top_k, SearchedStore).status = "raised"
    /\ embedding_calls' = embedding_calls + 1
    /\ Finish(Threw("search"))
    /\ UNCHANGED <<called, vector_data, topics, top_k, pos, topic_results,
                   topic_summaries, output_folder, completion_calls,
                   generated, args, cvars, pvars, mpc>>

\* search_topics returns topic_results: to its caller, or to run_workflow
SearchReturns ==
    /\ wpc = "search"
    /\ pos > Len(topics)
    /\ IF called = "search_topics"
       THEN /\ Finish(Gave(topic_results))
            /\ UNCHANGED pos
       ELSE /\ wpc' = "summarize"
            /\ pos' = 1
            /\ UNCHANGED outcome
    /\ UNCHANGED <<called, vector_data, topics, top_k, topic_results,
                   topic_summaries, output_folder, completion_calls,
                   embedding_calls, generated, args, cvars, pvars, mpc>>

\* run_workflow, step 4, one topic: topic_summaries[topic] = summary
SummarizeTopic ==
    /\ wpc = "summarize"
    /\ pos <= Len(topics)
    /\ LET topic == topics[pos]
           chs == ChunksOfResults(DictGet(topic_results, topic))
       IN  /\ \E t \in SummaryTexts :
                /\ Summarize(topic, chs, Completion(t)).status = "returned"
                /\ topic_summaries' = DictSet(topic_summaries, topic,
                                              Summarize(topic, chs, Completion(t)).value)
           /\ completion_calls' =
                IF CallsCompletion(chs)
                THEN completion_calls \cup {SummarizeRequest(topic)}
                ELSE completion_calls
    /\ pos' = pos + 1
    /\ UNCHANGED <<wpc, called, vector_data, topics, top_k, topic_results,
                   outcome, output_folder, embedding_calls, generated, args,
                   cvars, pvars, mpc>>

\* Mutant of SummarizeTopicFails: the topic is left without a summary and
\* the loop goes on
SummarizeTopicSkips ==
    /\ wpc = "summarize"
    /\ pos <= Len(topics)
    /\ CallsCompletion(ChunksOfResults(DictGet(topic_results, topics[pos])))
    /\ completion_calls' = completion_calls \cup {SummarizeRequest(topics[pos])}
    /\ pos' = pos + 1
    /\ UNCHANGED <<wpc, called, vector_data, topics, top_k, topic_results,
                   topic_summaries, outcome, output_folder, embedding_calls,
                   generated, args, cvars, pvars, mpc>>

\* summarize_information raises: the completion call failed
SummarizeTopicFails ==
    /\ wpc = "summarize"
    /\ pos <= Len(topics)
    /\ LET topic == topics[pos]
           chs == ChunksOfResults(DictGet(topic_results, topic))
       IN  /\ Summarize(topic, chs, CompletionError).status = "raised"
           /\ completion_calls' = completion_calls \cup {SummarizeRequest(topic)}
           /\ Finish(Summarize(topic, chs, CompletionError))
    /\ UNCHANGED <<called, vector_data, topics, top_k, pos, topic_results,
                   topic_summaries, output_folder, embedding_calls, generated,
                   args, cvars, pvars, mpc>>

\* run_workflow, step 5 and the return: generate_pdf(topic_summaries, output_filename)
Generate ==
    /\ wpc = "summarize"
    /\ pos > Len(topics)
    /\ \E fn \in Filenames :
        /\ output_folder' =
            output_folder \cup {Document(OutputPath(fn), topic_summaries)}
        /\ Finish(Gave(WorkflowResult(topics, OutputPath(fn), topic_summaries)))
    /\ generated' = generated + 1
    /\ UNCHANGED <<called, vector_data, topics, top_k, pos, topic_results,
                   topic_summaries, completion_calls, embedding_calls, args,
                   cvars, pvars, mpc>>

\* generate_pdf raises in run_workflow
GenerateFails ==
    /\ wpc = "summarize"
    /\ pos > Len(topics)
    /\ Finish(Threw("generate"))
    /\ UNCHANGED <<called, vector_data, topics, top_k, pos, topic_results,
                   topic_summaries, output_folder, completion_calls,
                   embedding_calls, generated, args, cvars, pvars, mpc>>

----------------------------------------------------------------------------
(* The machines *)

ChunkIdle ==
    /\ text = <<>>
    /\ chunk_size = DefaultChunkSize
    /\ overlap = DefaultOverlap
    /\ start = 0
    /\ chunks = <<>>
    /\ windows = <<>>
    /\ cpc = "call"

\* After WorkflowService.__init__: nothing was called
WorkflowIdle ==
    /\ wpc = "idle"
    /\ called = "none"
    /\ vector_data = EmptyStore
    /\ topics = <<>>
    /\ top_k = DefaultTopK
    /\ pos = 1
    /\ topic_results = <<>>
    /\ topic_summaries = <<>>
    /\ outcome = NoOutcome
    /\ output_folder = {}
    /\ completion_calls = {}
    /\ embedding_calls = 0
    /\ generated = 0
    /\ args = NoArgs

\* process_pdfs is not running
PipelineAtRest ==
    /\ ppc = "idle"
    /\ pdf_files = <<>>
    /\ idx = 1
    /\ all_chunks = <<>>
    /\ all_embeddings = <<>>
    /\ all_metadata = <<>>
    /\ embeddings = <<>>
    /\ failed = FALSE
    /\ result = "none"
    /\ loaded = NotLoaded
    /\ completed = NoRun

\* After PDFService.__init__: nothing has run, no store file yet
PipelineIdle ==
    /\ vector_file = NoFile
    /\ PipelineAtRest

InitChunk ==
    /\ text \in Texts
    /\ chunk_size \in Params
    /\ overlap \in Params
    /\ start = 0
    /\ chunks = <<>>
    /\ windows = <<>>
    /\ cpc = "call"
    /\ pdf_folder = <<>>
    /\ PipelineIdle
    /\ WorkflowIdle
    /\ mpc = "none"

NextChunk == ChunkCall \/ ChunkIterate \/ ChunkReturn

SpecChunk == InitChunk /\ [][NextChunk]_vars

Init ==
    /\ ChunkIdle
    /\ pdf_folder \in Folders
    /\ PipelineIdle
    /\ WorkflowIdle
    /\ mpc = "none"

Next ==
    \/ ProcessStart
    \/ ExtractFails
    \/ EmbedFails
    \/ EmbedTooFew
    \/ ProcessDocument
    \/ ProcessOpen
    \/ ProcessDump
    \/ ProcessDumpFails
    \/ LoadVectors
    \/ ChangeFolder

Spec == Init /\ [][Next]_vars

\* A WorkflowService over a store file that process_pdfs left behind
InitWorkflow ==
    /\ ChunkIdle
    /\ pdf_folder = <<>>
    /\ vector_file \in StoreFiles
    /\ PipelineAtRest
    /\ WorkflowIdle
    /\ mpc = "none"

NextWorkflow ==
    \/ CallLoadEmbeddings
    \/ CallDiscoverTopics
    \/ CallSearchVectors
    \/ CallSummarize
    \/ CallGeneratePdf
    \/ CallGeneratePdfFails
    \/ CallSearchTopics
    \/ CallSearchTopicsPreloaded
    \/ RunWorkflow
    \/ UseTopics
    \/ Discover
    \/ DiscoverFails
    \/ SearchTopic
    \/ SearchTopicFails
    \/ SearchReturns
    \/ SummarizeTopic
    \/ SummarizeTopicFails
    \/ Generate
    \/ GenerateFails

SpecWorkflow == InitWorkflow /\ [][NextWorkflow]_vars

\* The stores a process_pdfs of another process writes while a workflow runs
ReplacementStores == StoresOf(<<"short.pdf">>)

\* A process_pdfs run replaces the store file while run_workflow has topics
\* left to search; the file is replaced once in a run
ReplaceStore ==
    /\ called = "run_workflow"
    /\ wpc \in {"loaded", "search"}
    /\ wpc = "search" => pos <= Len(topics)
    /\ vector_file = [exists |-> TRUE, bytes |-> Pickle(vector_data)]
    /\ \E s \in ReplacementStores \ {vector_data} :
        vector_file' = [exists |-> TRUE, bytes |-> Pickle(s)]
    /\ UNCHANGED <<pdf_folder, ppc, pdf_files, idx, all_chunks, all_embeddings,
                   all_metadata, embeddings, failed, result, loaded, completed,
                   cvars, wvars, mpc>>

NextSnapshot ==
    \/ RunWorkflow
    \/ UseTopics
    \/ Discover
    \/ DiscoverFails
    \/ SearchTopic
    \/ SearchTopicFails
    \/ SearchReturns
    \/ SummarizeTopic
    \/ SummarizeTopicFails
    \/ Generate
    \/ GenerateFails
    \/ ReplaceStore

\* run_workflow with the store file replaced under it
SpecSnapshot == InitWorkflow /\ [][NextSnapshot]_vars

-----------------------------------------------------------------------------
(* main: one run of the application, from the check of the API key to the  *)
(* report.  process_pdfs and run_workflow run inside it, step by step.      *)

\* The keys main reads from the dict run_workflow returned
ResultKeysRead == {"status", "pptx_path", "topics", "topics_processed"}

\* os.getenv("OPENAI_API_KEY") gives nothing: main prints the error and returns
MainNoKey ==
    /\ mpc = "start"
    /\ mpc' = "no_key"
    /\ UNCHANGED <<cvars, pvars, wvars>>

\* The key is set: pdf_service = PDFService(); pdf_service.process_pdfs()
MainCallsProcessPdfs ==
    /\ mpc = "start"
    /\ mpc' = "ingest"
    /\ UNCHANGED <<cvars, pvars, wvars>>

\* process_pdfs has been called by main and has not ended
Ingesting == mpc = "ingest" /\ result \in {"none", "running"}

\* process_pdfs has ended inside main
Ingested == mpc = "ingest" /\ ppc = "idle" /\ result \notin {"none", "running"}

\* Mutant of MainNoFiles: main goes on to the workflow after "no_files"
MainNoFilesGoesOn ==
    /\ Ingested
    /\ result = "no_files"
    /\ mpc' = "workflow"
    /\ UNCHANGED <<cvars, pvars, wvars>>

\* if result["status"] == "no_files": return
MainNoFiles ==
    /\ Ingested
    /\ result = "no_files"
    /\ mpc' = "no_files"
    /\ UNCHANGED <<cvars, pvars, wvars>>

\* An exception of process_pdfs is not caught: it leaves main
MainProcessPdfsRaised ==
    /\ Ingested
    /\ result = "raised"
    /\ mpc' = "raised"
    /\ UNCHANGED <<cvars, pvars, wvars>>

\* result["status"] == "success": workflow = WorkflowService();
\* workflow.run_workflow(topics=None, top_k=5, output_filename=None, num_topics=5)
MainCallsRunWorkflow ==
    /\ Ingested
    /\ result = "success"
    /\ mpc' = "workflow"
    /\ UNCHANGED <<cvars, pvars, wvars>>

\* discover_topics returns inside main: num_topics=5, and top_k=5 is kept
MainDiscover ==
    /\ mpc = "workflow"
    /\ Discover
    /\ top_k' = DefaultTopK
    /\ \E lines \in DiscoverResponses :
        DiscoverTopics(Completion(lines), DefaultNumTopics) = Gave(topics')

\* discover_topics raises inside main: num_topics=5
MainDiscoverFails ==
    /\ mpc = "workflow"
    /\ DiscoverFails
    /\ \E response \in {Completion(l) : l \in DiscoverResponses} \cup {CompletionError} :
        DiscoverTopics(response, DefaultNumTopics) = outcome'

\* generate_pdf inside main: output_filename=None
MainGenerate ==
    /\ mpc = "workflow"
    /\ Generate
    /\ outcome'.value.pdf_path = OutputPath(NoFilename)

\* run_workflow returned: the status is tested and the report is printed; a
\* key the dict does not have raises KeyError, caught by "except Exception"
MainReport ==
    /\ mpc = "workflow"
    /\ wpc = "done"
    /\ outcome.status = "returned"
    /\ mpc' = IF "status" \notin DOMAIN outcome.value THEN "error"
              ELSE IF outcome.value.status # "success" THEN "workflow_errors"
              ELSE IF ResultKeysRead \subseteq DOMAIN outcome.value THEN "reported"
              ELSE "error"
    /\ UNCHANGED <<cvars, pvars, wvars>>

\* run_workflow raised: "except Exception" prints the error and the traceback
MainWorkflowRaised ==
    /\ mpc = "workflow"
    /\ wpc = "done"
    /\ outcome.status = "raised"
    /\ mpc' = "error"
    /\ UNCHANGED <<cvars, pvars, wvars>>

\* main starts with the PDF folder as the user filled it and the store file
\* as an earlier run left it
InitMain ==
    /\ ChunkIdle
    /\ pdf_folder \in Folders
    /\ vector_file \in StoreFiles
    /\ PipelineAtRest
    /\ WorkflowIdle
    /\ mpc = "start"

NextMain ==
    \/ MainNoKey
    \/ MainCallsProcessPdfs
    \/ Ingesting /\ ProcessStart
    \/ Ingesting /\ ExtractFails
    \/ Ingesting /\ EmbedFails
    \/ Ingesting /\ EmbedTooFew
    \/ Ingesting /\ ProcessDocument
    \/ Ingesting /\ ProcessOpen
    \/ Ingesting /\ ProcessDump
    \/ Ingesting /\ ProcessDumpFails
    \/ MainNoFiles
    \/ MainProcessPdfsRaised
    \/ MainCallsRunWorkflow
    \/ mpc = "workflow" /\ RunWorkflow
    \/ MainDiscover
    \/ MainDiscoverFails
    \/ mpc = "workflow" /\ SearchTopic
    \/ mpc = "workflow" /\ SearchTopicFails
    \/ mpc = "workflow" /\ SearchReturns
    \/ mpc = "workflow" /\ SummarizeTopic
    \/ mpc = "workflow" /\ SummarizeTopicFails
    \/ MainGenerate
    \/ mpc = "workflow" /\ GenerateFails
    \/ MainReport
    \/ MainWorkflowRaised

SpecMain == InitMain /\ [][NextMain]_vars

-----------------------------------------------------------------------------
(* The sampling step of discover_topics, as a function of the chunk list   *)
(* and sample_size.  A chunk is named by its index in the store.           *)

\* sample_chunks is computed from vector_data["chunks"] and sample_size
SampleStep ==
    /\ wpc = "idle"
    /\ called' = "discover_topics"
    /\ Finish(Gave(SampleChunks(args.chunks, args.sample_size)))
    /\ UNCHANGED <<vector_data, topics, top_k, pos, topic_results,
                   topic_summaries, output_folder, completion_calls,
                   embedding_calls, generated, args, cvars, pvars, mpc>>

\* discover_topics is past its check for an empty store: n >= 1 chunks
InitSample ==
    /\ ChunkIdle
    /\ pdf_folder = <<>>
    /\ PipelineIdle
    /\ wpc = "idle"
    /\ called = "none"
    /\ vector_data = EmptyStore
    /\ topics = <<>>
    /\ top_k = DefaultTopK
    /\ pos = 1
    /\ topic_results = <<>>
    /\ topic_summaries = <<>>
    /\ outcome = NoOutcome
    /\ output_folder = {}
    /\ completion_calls = {}
    /\ embedding_calls = 0
    /\ generated = 0
    /\ \E n \in 1..MaxChunks, size \in (1..MaxSample) \cup {DefaultSampleSize} :
        args = [chunks |-> [i \in 1..n |-> i - 1], sample_size |-> size]
    /\ mpc = "none"

SpecSample == InitSample /\ [][SampleStep]_vars

----------------------------------------------------------------------------
(* Claims about chunk_text, checked under SpecChunk *)

\* chunk_size > 0 and 0 <= overlap < chunk_size
ValidParams == chunk_size > 0 /\ 0 <= overlap /\ overlap < chunk_size

\* The call has left its entry point
Called == cpc # "call"

\* C1: chunk_text called with overlap >= chunk_size or chunk_size <= 0 on a
\* non-empty text fails fast with an input error (and so never hangs).
C1_InvalidParamsRaise ==
    (Called /\ text # <<>> /\ (overlap >= chunk_size \/ chunk_size <= 0))
        => cpc = "raised"

\* The cursor after iteration i
CursorAfter(i) == IF i < Len(windows) THEN windows[i + 1][1] ELSE start

\* C2: with chunk_size > 0 and 0 <= overlap < chunk_size every iteration
\* strictly increases start, start never becomes negative, and the loop
\* does not run forever.
C2_CursorStrictlyAdvances ==
    ValidParams =>
        /\ start >= 0
        /\ cpc # "hang"
        /\ \A i \in 1..Len(windows) : CursorAfter(i) > windows[i][1]

\* C4: a window that does not reach the end of the text and whose last period
\* or newline lies at or beyond 70% of chunk_size is cut just after that
\* boundary, with end = start + boundary + 1; any other window is kept whole.
C4_TruncatedAtOrBeyond70 ==
    ValidParams =>
        \A i \in 1..Len(windows) :
            LET st == windows[i][1]
                window == Slice(text, st, st + chunk_size)
                bp == BreakPoint(window)
            IN  IF /\ st + chunk_size < Len(text)
                   /\ ThresholdDen * bp >= ThresholdNum * chunk_size
                THEN /\ windows[i][2] = st + bp + 1
                     /\ chunks[i] = Strip(Slice(window, 0, bp + 1))
                ELSE /\ windows[i][2] = st + chunk_size
                     /\ chunks[i] = Strip(window)

\* The windows taken start at 0, leave no gap and reach the end of the text,
\* and each chunk is the stripped text of its window.
WindowsCover ==
    /\ Len(windows) > 0
    /\ windows[1][1] = 0
    /\ \A i \in 1..(Len(windows) - 1) : windows[i + 1][1] <= windows[i][2]
    /\ \E i \in 1..Len(windows) : windows[i][2] >= Len(text)
    /\ \A i \in 1..Len(windows) :
        /\ windows[i][1] >= 0
        /\ chunks[i] = Strip(Slice(text, windows[i][1], windows[i][2]))

\* C5: for every non-empty text and valid parameters the windows of the call
\* cover every position of the text: the first starts at 0, each next one
\* starts at or before the previous end, and one reaches len(text).
C5_WindowsCoverText ==
    (ValidParams /\ text # <<>> /\ cpc \in {"done", "hang"}) => WindowsCover

\* C6: with valid parameters every chunk has length <= chunk_size.
C6_ChunkLengthBounded ==
    ValidParams => \A i \in 1..Len(chunks) : Len(chunks[i]) <= chunk_size

C6_Witness ==
    /\ ValidParams
    /\ cpc = "done"
    /\ Len(chunks) >= 2
    /\ Len(chunks[1]) = chunk_size
    /\ Len(text) > chunk_size

\* C7: on an empty text chunk_text returns an empty sequence, whatever
\* chunk_size and overlap are, and raises nothing.
C7_EmptyTextReturnsEmpty ==
    (Called /\ text = <<>>) => (cpc = "done" /\ chunks = <<>>)

C7_Witness ==
    /\ text = <<>>
    /\ cpc = "done"
    /\ chunks = <<>>
    /\ (chunk_size <= 0 \/ overlap >= chunk_size)

\* Partial forms that hold of the code (the loop's behaviour when it returns)
ReturnedWindowsCover ==
    (ValidParams /\ text # <<>> /\ cpc = "done") => WindowsCover

TruncatedStrictlyBeyond70 ==
    ValidParams =>
        \A i \in 1..Len(windows) :
            LET st == windows[i][1]
                window == Slice(text, st, st + chunk_size)
                bp == BreakPoint(window)
            IN  IF /\ st + chunk_size < Len(text)
                   /\ ThresholdDen * bp > ThresholdNum * chunk_size
                THEN /\ windows[i][2] = st + bp + 1
                     /\ chunks[i] = Strip(Slice(window, 0, bp + 1))
                ELSE /\ windows[i][2] = st + chunk_size
                     /\ chunks[i] = Strip(window)

----------------------------------------------------------------------------
(* Claims about the store file, checked under Spec *)

\* The store the last completed run produced (the empty store before any)
CompletedStore ==
    IF completed.valid
    THEN VectorData(completed.chunks, completed.embeddings, completed.metadata)
    ELSE EmptyStore

LoadCalled == loaded.status # "none"

\* C3: save is atomic: whatever happens while process_pdfs writes the file,
\* a load afterwards returns a whole store, the previous one or the new one.
C3_LoadAfterSaveReturnsWholeStore ==
    LoadCalled => (loaded.status = "returned" /\ loaded.data = CompletedStore)

\* C8: when the store file does not exist load_vectors returns the empty
\* store (no chunks, zero-length embeddings, no metadata) and does not raise.
C8_MissingFileLoadsEmpty ==
    (LoadCalled /\ ~vector_file.exists) =>
        /\ loaded.status = "returned"
        /\ loaded.data.chunks = <<>>
        /\ ArrayLen(loaded.data.embeddings) = 0
        /\ loaded.data.metadata = <<>>

C8_Witness ==
    /\ ~vector_file.exists
    /\ loaded.status = "returned"
    /\ result = "raised"

\* C9: after a completed save the next load_vectors returns the same chunks,
\* the same embedding values and the same metadata, in the same order.
C9_RoundTrip ==
    (LoadCalled /\ result = "success") =>
        /\ loaded.status = "returned"
        /\ loaded.data.chunks = completed.chunks
        /\ ArrayLen(loaded.data.embeddings) = Len(completed.embeddings)
        /\ \A i \in 1..Len(completed.embeddings) :
            ArrayRow(loaded.data.embeddings, i) = completed.embeddings[i]
        /\ loaded.data.metadata = completed.metadata

C9_Witness ==
    /\ result = "success"
    /\ loaded.status = "returned"
    /\ Len(loaded.data.chunks) >= 3
    /\ \E i, j \in 1..Len(completed.embeddings) :
        completed.embeddings[i] # completed.embeddings[j]

\* C10: after any sequence of runs the persisted store holds exactly what the
\* last completed run produced.
C10_StoreIsLastCompletedRun ==
    (ppc = "idle" /\ completed.valid) =>
        /\ vector_file.exists
        /\ Complete(vector_file.bytes)
        /\ Unpickle(vector_file.bytes) = CompletedStore

\* The store in the file, when the file holds a whole stream
Persisted == vector_file.exists /\ Complete(vector_file.bytes)
PersistedStore == Unpickle(vector_file.bytes)

\* process_pdfs is between two documents, or past the last one
InRun == ppc \in {"loop", "dump"}

\* C11: the three arrays of a store are parallel: equal lengths, and the
\* embedding and the metadata at position i are the embedder's i-th output
\* for, and the description of, the i-th chunk of its document, however many
\* embeddings the embedder returned.
C11_ParallelArrays ==
    /\ Len(all_chunks) = Len(all_embeddings)
    /\ Len(all_chunks) = Len(all_metadata)
    /\ (InRun /\ idx > 1) =>
        LET doc == pdf_files[idx - 1]
            chs == ChunkRefs(doc)
            base == Len(all_chunks) - Len(chs)
        IN  \A i \in 1..Len(chs) :
                /\ all_chunks[base + i] = chs[i]
                /\ all_embeddings[base + i] = embeddings[i]
                /\ all_metadata[base + i].source_file = doc
                /\ all_metadata[base + i].chunk_index = i - 1
    /\ Persisted =>
        /\ Len(PersistedStore.chunks) = ArrayLen(PersistedStore.embeddings)
        /\ Len(PersistedStore.chunks) = Len(PersistedStore.metadata)
        /\ \A i \in 1..Len(PersistedStore.chunks) :
            /\ PersistedStore.metadata[i].source_file = PersistedStore.chunks[i].source
            /\ PersistedStore.metadata[i].chunk_index = PersistedStore.chunks[i].k - 1
            /\ ArrayRow(PersistedStore.embeddings, i) = completed.embeddings[i]

C11_Witness ==
    /\ ppc = "dump"
    /\ Len(pdf_files) = 2
    /\ Len(embeddings) > Len(ChunkRefs(pdf_files[2]))
    /\ Len(all_chunks) >= 3

\* The positions of m before i, and all of them, that describe the document
\* of position i
EarlierOfDocument(m, i) ==
    Cardinality({j \in 1..(i - 1) : m[j].source_file = m[i].source_file})
AllOfDocument(m, i) ==
    Cardinality({j \in 1..Len(m) : m[j].source_file = m[i].source_file})

MetadataWellFormed(m) ==
    \A i \in 1..Len(m) :
        /\ 0 <= m[i].chunk_index
        /\ m[i].chunk_index < m[i].total_chunks
        /\ m[i].total_chunks = Len(DocChunks(m[i].source_file))
        /\ m[i].chunk_index = EarlierOfDocument(m, i)
        /\ m[i].total_chunks = AllOfDocument(m, i)

\* C12: every metadata record has 0 <= chunk_index < total_chunks, its
\* total_chunks is the number of chunks of its source document, and the
\* chunk_index values of one document are 0..total_chunks-1 in stored order.
C12_MetadataIndices ==
    /\ MetadataWellFormed(all_metadata)
    /\ Persisted => MetadataWellFormed(PersistedStore.metadata)

C12_Witness ==
    /\ Persisted
    /\ result = "success"
    /\ \E i \in 1..Len(PersistedStore.metadata) :
        /\ PersistedStore.metadata[i].source_file = "long.pdf"
        /\ PersistedStore.metadata[i].chunk_index = 1
        /\ i = 3

\* C13: a failure of extraction or of embedding for one document ends the
\* whole run by raising: the run neither goes on without the document nor
\* returns 'success'.
C13_FailureAbortsRun ==
    /\ failed => (ppc = "idle" /\ result = "raised")
    /\ result = "success" => ~failed
    /\ InRun =>
        /\ \A j \in 1..(idx - 1) : Readable(pdf_files[j])
        /\ all_chunks = ChunksOfFiles(pdf_files, idx - 1)

C13_Witness ==
    /\ failed
    /\ result = "raised"
    /\ pdf_folder = <<"long.pdf", "broken.pdf">>
    /\ ~vector_file.exists

----------------------------------------------------------------------------
(* Claims about WorkflowService and search_vectors, checked under          *)
(* SpecWorkflow                                                            *)

\* The store file is missing, or holds a store without chunks
NoStoredChunks ==
    \/ ~vector_file.exists
    \/ Persisted /\ Len(PersistedStore.chunks) = 0

\* A call that has to load the store itself
LoadsTheStore ==
    \/ called \in {"load_embeddings", "run_workflow"}
    \/ called = "search_topics" /\ args = NoArgs

\* C14: with no store file, or a store of zero chunks, load_embeddings,
\* run_workflow and search_topics without vector_data report the 'no data'
\* error before any discovery, search, summarization or generation.
C14_NoDataReported ==
    (NoStoredChunks /\ LoadsTheStore) =>
        /\ wpc = "done"
        /\ outcome = Threw("no_data")
        /\ completion_calls = {}
        /\ embedding_calls = 0
        /\ topic_results = <<>>
        /\ topic_summaries = <<>>
        /\ generated = 0
        /\ output_folder = {}

C14_Witness ==
    /\ called = "run_workflow"
    /\ Persisted
    /\ Len(PersistedStore.chunks) = 0
    /\ outcome.error = "no_data"

\* search_vectors was called and has ended
Searched == called = "search_vectors" /\ wpc = "done"

\* C15: search on an empty store returns the empty sequence for every query
\* and every top_k, does not raise and does not need the query's embedding.
C15_EmptyStoreSearch ==
    /\ (Searched /\ Len(args.vector_data.chunks) = 0) =>
        /\ outcome = Gave(<<>>)
        /\ embedding_calls = 0
    /\ (called = "search_topics" /\ ~LoadsTheStore /\ Len(vector_data.chunks) = 0) =>
        /\ outcome.status # "raised"
        /\ embedding_calls = 0
        /\ \A i \in 1..Len(topic_results) : topic_results[i].value = <<>>

C15_Witness ==
    /\ Searched
    /\ Len(args.vector_data.chunks) = 0
    /\ args.query_embedding = NoVector
    /\ args.top_k = DefaultTopK
    /\ outcome.status = "returned"

\* The position of the store a result comes from
PositionOf(vd, r) == CHOOSE i \in 1..Len(vd.chunks) : vd.chunks[i] = r.chunk

\* Results in rank order, each with the chunk and the metadata of one position
InRankOrder(vd, res) ==
    \A p \in 1..Len(res) :
        /\ \E i \in 1..Len(vd.chunks) : vd.chunks[i] = res[p].chunk
        /\ res[p].metadata = vd.metadata[PositionOf(vd, res[p])]
        /\ \A q \in (p + 1)..Len(res) :
            \/ GreaterSimilarity(res[p].similarity, res[q].similarity)
            \/ /\ SameSimilarity(res[p].similarity, res[q].similarity)
               /\ PositionOf(vd, res[p]) < PositionOf(vd, res[q])

\* The score of each result is the cosine of the query and of its position,
\* and no position left out ranks before a result
ScoredByPosition(vd, qe, res) ==
    \A p \in 1..Len(res) :
        /\ SameSimilarity(res[p].similarity,
                          Cosine(qe, ArrayRow(vd.embeddings, PositionOf(vd, res[p]))))
        /\ \A i \in 1..Len(vd.chunks) :
            (\A q \in 1..Len(res) : PositionOf(vd, res[q]) # i) =>
                ~GreaterSimilarity(Cosine(qe, ArrayRow(vd.embeddings, i)),
                                   res[p].similarity)

\* C16: search returns its results by similarity descending, ties by
\* insertion index ascending (one order only, so the same call gives the same
\* sequence), each with the chunk and the metadata of the position that
\* produced its score.
C16_ResultsRanked ==
    /\ (Searched /\ outcome.status = "returned") =>
        /\ InRankOrder(args.vector_data, outcome.value)
        /\ ScoredByPosition(args.vector_data, args.query_embedding, outcome.value)
    /\ called \in {"search_topics", "run_workflow"} =>
        \A i \in 1..Len(topic_results) :
            InRankOrder(vector_data, topic_results[i].value)

C16_Witness ==
    /\ Searched
    /\ Len(outcome.value) = 3
    /\ GreaterSimilarity(outcome.value[1].similarity, outcome.value[2].similarity)
    /\ SameSimilarity(outcome.value[2].similarity, outcome.value[3].similarity)
    /\ PositionOf(args.vector_data, outcome.value[1]) = 3

\* min(top_k, size), and 0 for top_k <= 0
ResultCount(k, size) == IF k <= 0 THEN 0 ELSE IF k < size THEN k ELSE size

\* C17: search returns exactly min(top_k, store size) results, and none when
\* top_k <= 0.
C17_ResultCount ==
    /\ (Searched /\ outcome.status = "returned") =>
        Len(outcome.value) = ResultCount(args.top_k, Len(args.vector_data.chunks))
    /\ called \in {"search_topics", "run_workflow"} =>
        \A i \in 1..Len(topic_results) :
            Len(topic_results[i].value) = ResultCount(top_k, Len(vector_data.chunks))

C17_Witness ==
    /\ Searched
    /\ args.top_k = 2
    /\ Len(args.vector_data.chunks) = 3
    /\ Len(outcome.value) = 2

\* C18: summarize_information with no chunks returns 'No relevant information
\* found for topic: <topic>' without a completion call; so in run_workflow a
\* topic whose search found nothing causes no completion call.
C18_NoChunksNoCompletion ==
    /\ (called = "summarize_information" /\ args.chunks = <<>>) =>
        /\ outcome = Gave(NoInformation(args.topic))
        /\ completion_calls = {}
    /\ called = "run_workflow" =>
        \A i \in 1..Len(topic_results) :
            topic_results[i].value = <<>> =>
                /\ SummarizeRequest(topic_results[i].key) \notin completion_calls
                /\ topic_results[i].key \in DictKeys(topic_summaries) =>
                    DictGet(topic_summaries, topic_results[i].key)
                        = NoInformation(topic_results[i].key)

C18_Witness ==
    /\ called = "summarize_information"
    /\ args.chunks = <<>>
    /\ args.topic = Dogs
    /\ outcome.status = "returned"

\* The suffix of a file name
Extensions == {".pdf", ".pptx"}
Suffix(n) == IF Len(n) > 1 /\ n[Len(n)] \in Extensions THEN n[Len(n)] ELSE ""

\* C19: the document generator writes a non-empty file in output_folder and
\* returns its path, whose suffix is .pptx; without a file name the name
\* starts with 'topic_summaries_' and still has the suffix .pptx.
C19_GeneratedFileIsPptx ==
    (called = "generate_pdf" /\ outcome.status = "returned") =>
        /\ \E f \in output_folder : f.path = outcome.value /\ f.size > 0
        /\ outcome.value.folder = "output_folder"
        /\ Suffix(outcome.value.name) = ".pptx"
        /\ ~args.output_filename.given =>
            outcome.value.name[1] = "topic_summaries_"

\* What of C19 the code does: a non-empty file in output_folder, its path
\* returned, the suffix .pdf
GeneratedFileIsPdf ==
    (called = "generate_pdf" /\ outcome.status = "returned") =>
        /\ \E f \in output_folder : f.path = outcome.value /\ f.size > 0
        /\ outcome.value.folder = "output_folder"
        /\ Suffix(outcome.value.name) = ".pdf"
        /\ ~args.output_filename.given =>
            outcome.value.name[1] = "topic_summaries_"

\* C20: run_workflow generates the document once, and only after every topic
\* was searched and summarized; when loading, discovery, search or a
\* summarization fails it ends with that error and generates no document.
C20_GeneratedOnceAtTheEnd ==
    called = "run_workflow" =>
        /\ generated <= 1
        /\ generated = Cardinality(output_folder)
        /\ generated = 1 =>
            /\ wpc = "done"
            /\ pos = Len(topics) + 1
            /\ \A i \in 1..Len(topics) :
                /\ topics[i] \in DictKeys(topic_results)
                /\ topics[i] \in DictKeys(topic_summaries)
        /\ outcome.status = "raised" =>
            /\ wpc = "done"
            /\ generated = 0
            /\ outcome.error \in {"load", "no_data", "discover", "search",
                                  "summarize", "generate"}
        /\ outcome.status = "returned" => generated = 1

C20_Witness ==
    /\ called = "run_workflow"
    /\ generated = 1
    /\ outcome.status = "returned"
    /\ Len(topics) = 2
    /\ topics[1] # topics[2]
    /\ Len(topic_summaries) = 2

----------------------------------------------------------------------------
(* Claims about run_workflow and a store file that changes, checked under  *)
(* SpecSnapshot                                                            *)

\* A step of run_workflow that stores the results of one search
SearchStep ==
    /\ called = "run_workflow"
    /\ wpc = "search"
    /\ topic_results' # topic_results

\* C21: run_workflow loads the store once and uses that snapshot for
\* discovery and for every search: a process_pdfs that replaces the store
\* file while the workflow runs does not change what its searches see.
C21_OneSnapshot ==
    [][/\ (wpc = "idle" /\ wpc' = "loaded") =>
            vector_data' = LoadResult(vector_file).data
       /\ (called = "run_workflow" /\ wpc # "idle") => vector_data' = vector_data
       /\ SearchStep =>
            \E qe \in QueryVectors :
                topic_results' =
                    DictSet(topic_results, topics[pos],
                            SearchVectors(qe, top_k, vector_data).data)]_vars

C21_Witness ==
    /\ called = "run_workflow"
    /\ wpc = "summarize"
    /\ Len(topic_results) = 2
    /\ top_k = DefaultTopK
    /\ vector_file.exists
    /\ Len(Unpickle(vector_file.bytes).chunks) < Len(vector_data.chunks)


\* ---------------------------------------------------------------------
\* Claims about the store file across runs, checked under Spec
\* ---------------------------------------------------------------------

\* The step is part of the save stage of process_pdfs, which is entered only
\* after every document of a non-empty folder was extracted and embedded
SaveStage ==
    /\ ppc = "dump" \/ ppc' = "dump"
    /\ pdf_files # <<>>
    /\ idx > Len(pdf_files)
    /\ ~failed

\* C22: the store file changes only in the save stage that completes a run
\* of process_pdfs: a run that returns "no_files", and a run that aborts
\* while a document is extracted or embedded, leave the file as it was.
C22_FailedRunKeepsStore ==
    [][/\ vector_file' # vector_file => SaveStage
       /\ (result' = "no_files" \/ (ppc = "loop" /\ failed'))
            => vector_file' = vector_file]_vars

\* A run has aborted on a document after an earlier run had completed, and
\* the store of the completed run is still in the file
C22_Witness ==
    /\ ppc = "idle"
    /\ result = "raised"
    /\ failed
    /\ completed.valid
    /\ Persisted
    /\ Len(PersistedStore.chunks) >= 1
    /\ PersistedStore.chunks = completed.chunks

\* C23: whenever process_pdfs has returned "success", load_embeddings on the
\* store file it wrote returns the store and does not raise "No embeddings
\* found", also when the PDFs gave no text.
C23_SuccessThenLoads ==
    (ppc = "idle" /\ result = "success")
        => LoadEmbeddings(vector_file).status = "returned"


\* ---------------------------------------------------------------------
\* Claims about main, checked under SpecMain
\* ---------------------------------------------------------------------

\* The workflow has started: run_workflow was called or one of its steps ran
WorkflowStarted ==
    \/ mpc \in {"workflow", "reported", "error", "workflow_errors"}
    \/ called # "none"
    \/ wpc # "idle"
    \/ completion_calls # {}
    \/ embedding_calls # 0
    \/ generated # 0

\* process_pdfs was called in this run of main
IngestionStarted ==
    \/ mpc = "ingest"
    \/ result # "none"
    \/ ppc # "idle"

\* C24: in main the workflow starts only after process_pdfs returned
\* "success" in the same run; without an API key neither ingestion nor the
\* workflow runs; after "no_files" the workflow is never started.
C24_WorkflowAfterSuccess ==
    /\ WorkflowStarted => (ppc = "idle" /\ result = "success")
    /\ mpc = "no_key" => (~IngestionStarted /\ ~WorkflowStarted)
    /\ result = "no_files" => ~WorkflowStarted
    /\ mpc = "start" => (~IngestionStarted /\ ~WorkflowStarted)

\* main has run the workflow to its end after a successful ingestion
C24_Witness ==
    /\ mpc = "error"
    /\ called = "run_workflow"
    /\ outcome.status = "returned"
    /\ generated = 1
    /\ result = "success"
    /\ Len(pdf_folder) = 2

\* C25: when run_workflow returns with status "success" its result has every
\* key main reads (status, pptx_path, topics, topics_processed), and the
\* success report of main completes without an error.
C25_ReportCompletes ==
    (called = "run_workflow" /\ outcome.status = "returned")
        => /\ outcome.value.status = "success"
           /\ ResultKeysRead \subseteq DOMAIN outcome.value
           /\ mpc \in {"workflow", "reported"}


\* ---------------------------------------------------------------------
\* Further claims about run_workflow, checked under SpecWorkflow
\* ---------------------------------------------------------------------

\* C26: for every topic list passed to run_workflow, also one that repeats a
\* topic, topics_processed of the result equals the number of entries of the
\* returned summaries.
C26_ProcessedCountsSummaries ==
    (called = "run_workflow" /\ outcome.status = "returned")
        => outcome.value.topics_processed = Len(outcome.value.summaries)


\* ---------------------------------------------------------------------
\* Further claims about chunk_text, checked under SpecChunk
\* ---------------------------------------------------------------------

\* The part of the text window i covers: [start, end) cut at the text's end
CoveredFrom(i) == windows[i][1]
CoveredTo(i) == Min2(windows[i][2], Len(text))

\* C27: chunk_text stops emitting once a window has reached the end of the
\* text: a text with 0 < len(text) <= chunk_size gives exactly one chunk, and
\* no window lies entirely inside the window before it.
C27_StopsAtEnd ==
    ValidParams =>
        /\ (cpc = "done" /\ 0 < Len(text) /\ Len(text) <= chunk_size)
                => Len(chunks) = 1
        /\ \A i \in 2..Len(windows) :
            ~(CoveredFrom(i - 1) <= CoveredFrom(i) /\ CoveredTo(i) <= CoveredTo(i - 1))

\* C28: for a non-empty text and valid parameters chunk_text never emits an
\* empty string as a chunk.
C28_NoEmptyChunk ==
    (ValidParams /\ text # <<>>) => \A i \in 1..Len(chunks) : chunks[i] # <<>>


\* ---------------------------------------------------------------------
\* Claims about discover_topics
\* ---------------------------------------------------------------------

\* C29 (checked under SpecSample): with n > sample_size chunks discover_topics
\* samples exactly sample_size chunks, at the indices 0, step, 2*step, ...
\* with step = n \div sample_size, and the last sampled index is at least
\* n - step; with n <= sample_size it samples all chunks.
C29_SampleSpread ==
    (called = "discover_topics" /\ outcome.status = "returned" /\ "chunks" \in DOMAIN args)
        => LET n == Len(args.chunks)
               size == args.sample_size
               step == n \div size
               sample == outcome.value
           IN  IF n <= size THEN sample = args.chunks
               ELSE /\ Len(sample) = size
                    /\ \A i \in 1..Len(sample) : sample[i] = (i - 1) * step
                    /\ sample[Len(sample)] >= n - step

\* What a line of the completion names: the line without the white space
\* around it and without leading numbering
Named(line) == Strip(LStrip(Strip(line), LeadChars))

\* ts are lines of the response, cleaned, in the order of the response
InListedOrder(ts, lines) ==
    \E f \in [1..Len(ts) -> 1..Len(lines)] :
        /\ \A i \in 1..Len(ts) : ts[i] = Named(lines[f[i]])
        /\ \A i, j \in 1..Len(ts) : i < j => f[i] < f[j]

\* run_workflow discovered its topics itself
AutoDiscovered == called = "run_workflow" /\ DiscoverRequest \in completion_calls

\* C30 (checked under SpecWorkflow): discover_topics with num_topics >= 1,
\* when it returns, returns between 1 and num_topics topics, each longer than
\* 2 characters, in the order the completion listed them; it never returns an
\* empty list, so run_workflow never searches with an empty list of
\* discovered topics.
C30_DiscoveredTopics ==
    /\ (called = "discover_topics" /\ outcome.status = "returned"
            /\ args.num_topics >= 1)
        => /\ 1 <= Len(outcome.value)
           /\ Len(outcome.value) <= args.num_topics
           /\ \A i \in 1..Len(outcome.value) : Len(outcome.value[i]) > 2
           /\ InListedOrder(outcome.value, args.response.text)
    /\ (called = "discover_topics" /\ outcome.status = "returned")
        => outcome.value # <<>>
    /\ (AutoDiscovered /\ (wpc \in {"search", "summarize"} \/ embedding_calls > 0))
        => topics # <<>>

\* discover_topics has returned the first two of three listed topics
C30_Witness ==
    /\ called = "discover_topics"
    /\ outcome.status = "returned"
    /\ args.num_topics = 2
    /\ Len(ParseTopics(args.response.text)) = 3
    /\ outcome.value = <<Dogs, Cats>>

====
